---- MODULE Spec2Model ----
(* A model of create-roadmap-issues.py: one run of the script, from the      *)
(* resolution of the GitHub token through the label check to the creation    *)
(* of one issue per entry of ISSUES.  The run is a single sequential         *)
(* process; it is cut into steps at the calls that block on the outside      *)
(* world: input() and every urllib.request.urlopen().                        *)
EXTENDS Integers, Sequences, FiniteSets, TLC

(***************************************************************************)
(* Bounds and input domains                                                *)
(***************************************************************************)
\* longest string given as argument, environment value or prompt line
MaxLen == 2
\* len(ISSUES); the script has 38 entries, the model a shorter list
NumIssues == 3
\* number of successive runs of the script against the same repository
MaxRuns == 2

\* characters of the input strings: one non-blank and one whitespace
Chars == {"x", " "}
Strings == UNION {[1..n -> Chars] : n \in 0..MaxLen}

\* HTTP statuses the server may answer with
Statuses == {200, 404, 422}

\* Python's None and a present value
None == <<>>
Some(v) == <<v>>

(***************************************************************************)
(* Pure helpers                                                            *)
(***************************************************************************)
isspace(c) == c = " "

RECURSIVE lstrip(_)
lstrip(s) == IF s = <<>> THEN <<>>
             ELSE IF isspace(Head(s)) THEN lstrip(Tail(s)) ELSE s

RECURSIVE rstrip(_)
rstrip(s) == IF s = <<>> THEN <<>>
             ELSE IF isspace(s[Len(s)]) THEN rstrip(SubSeq(s, 1, Len(s) - 1))
             ELSE s

\* a variant of strip that leaves the string as it is
strip_identity(s) == s

\* str.strip()
strip(s) == rstrip(lstrip(s))

\* truth value of an optional string: None and "" are false
truthy(opt) == opt # None /\ opt[1] # <<>>

\* a variant of the lookup that consults the environment before the argument
arg_env_token_env_first(args, env) ==
    IF truthy(env) THEN env
    ELSE IF Len(args) > 0 THEN Some(args[1])
    ELSE None

\* get_github_token up to the prompt: the token taken from the command line
\* or the environment, None when the prompt is needed
arg_env_token(args, env) ==
    IF Len(args) > 0 THEN Some(args[1])
    ELSE IF truthy(env) THEN env
    ELSE None

\* what input() can produce: a line, or EOFError on a closed stdin
Line(s) == [eof |-> FALSE, line |-> s]
EOF == [eof |-> TRUE, line |-> <<>>]
PromptInputs == {Line(s) : s \in Strings} \cup {EOF}

\* what urlopen() can produce: a response with a status whose body can
\* ("ok") or cannot ("bad") be read and decoded as the caller expects, or a
\* transport failure (URLError) raised instead of a response
Http(s, b) == [kind |-> "http", status |-> s, body |-> b]
Transport == [kind |-> "transport", status |-> 0, body |-> "none"]
LabelOutcomes == {Http(s, "ok") : s \in Statuses} \cup {Transport}
IssueOutcomes == {Http(s, b) : s \in Statuses, b \in {"ok", "bad"}} \cup {Transport}

\* urllib raises HTTPError for every status outside 200..299
is_success(o) == o.kind = "http" /\ o.status >= 200 /\ o.status < 300
is_http_error(o) == o.kind = "http" /\ ~is_success(o)

\* a variant that creates the label without looking at the answer of the
\* check
after_label_get_always_create(o) ==
    IF o.kind = "http" THEN "create_label" ELSE "raise"

\* where check_and_create_label goes after the answer to its GET:
\* "loop" (return to main), "create_label" (send the POST) or "raise"
after_label_get(o) ==
    IF is_success(o) THEN "loop"
    ELSE IF is_http_error(o) THEN (IF o.status = 404 THEN "create_label" ELSE "loop")
    ELSE "raise"

\* where check_and_create_label goes after the answer to its POST
after_label_post(o) ==
    IF is_success(o) THEN "loop"
    ELSE IF is_http_error(o) THEN "loop"
    ELSE "raise"

\* create_issue once urlopen has answered: "True", "False", or "raise" when
\* an exception leaves the function
create_issue(o) ==
    IF is_success(o) THEN (IF o.body = "ok" THEN "True" ELSE "False")
    ELSE IF is_http_error(o) THEN (IF o.body = "ok" THEN "False" ELSE "raise")
    ELSE "False"

\* the requests the script sends
LabelGet == [kind |-> "label_get", draft |-> 0, labels |-> {}]
LabelPost == [kind |-> "label_post", draft |-> 0, labels |-> {}]

(***************************************************************************)
(* State                                                                   *)
(***************************************************************************)
VARIABLES
    argv,            \* sys.argv[1:], at most one argument
    GITHUB_TOKEN,    \* os.environ.get('GITHUB_TOKEN'): None or Some(string)
    stdin,           \* what input() produced, None while it was not called
    token,           \* the value get_github_token returned, None before
    pc,              \* position of the process
    requests,        \* the network requests sent so far, in order
    inflight,        \* number of requests sent and not yet answered
    label_get_resp,  \* answer to the label GET, None before
    label_post_resp, \* answer to the label POST, None before
    issue_resp,      \* answers to the create-issue requests, in order
    i,               \* number of list entries the loop has finished
    success_count,
    failed_count,
    out,             \* the lines printed, as tags
    crash,           \* the exception that left main uncaught, "none" if none
    exit_status,     \* None while running, Some(status) after exit
    label_exists,    \* the repository has the label "feature"
    label_created,   \* number of times the repository created the label
    issues_created,  \* number of issues the repository created
    run,             \* number of the current run of the script
    clean_runs       \* earlier runs that ended with exit status 0

vars == <<argv, GITHUB_TOKEN, stdin, token, pc, requests, inflight,
          label_get_resp, label_post_resp, issue_resp, i, success_count,
          failed_count, out, crash, exit_status, label_exists,
          label_created, issues_created, run, clean_runs>>

net == <<requests, inflight, label_get_resp, label_post_resp, issue_resp>>
counters == <<i, success_count, failed_count>>
inputs == <<argv, GITHUB_TOKEN>>
repo == <<label_exists, label_created, issues_created>>
runs == <<run, clean_runs>>

\* a variant of the create-issue request that attaches the label only when
\* the label ensurer has seen or created it
IssuePost_label_if_known(d) ==
    [kind |-> "issue", draft |-> d,
     labels |-> IF \/ (label_get_resp # None /\ is_success(label_get_resp[1]))
                   \/ (label_post_resp # None /\ is_success(label_post_resp[1]))
                THEN {"feature"} ELSE {}]

\* create_issue's request: title and body of the draft, labels ["feature"]
IssuePost(d) == [kind |-> "issue", draft |-> d, labels |-> {"feature"}]

\* the repository before the first run: nothing created yet
fresh_repo ==
    /\ label_created = 0
    /\ issues_created = 0
    /\ run = 1
    /\ clean_runs = 0

Init ==
    /\ argv \in {<<>>} \cup {<<s>> : s \in Strings}
    /\ GITHUB_TOKEN \in {None} \cup {Some(s) : s \in Strings}
    /\ label_exists = FALSE
    /\ fresh_repo
    /\ stdin = None
    /\ token = None
    /\ pc = "get_github_token"
    /\ requests = <<>>
    /\ inflight = 0
    /\ label_get_resp = None
    /\ label_post_resp = None
    /\ issue_resp = <<>>
    /\ i = 0
    /\ success_count = 0
    /\ failed_count = 0
    /\ out = <<>>
    /\ crash = "none"
    /\ exit_status = None

(***************************************************************************)
(* Steps                                                                   *)
(***************************************************************************)
\* main up to get_github_token's prompt: the token comes from the argument
\* or the environment, or the process blocks in input()
get_github_token ==
    /\ pc = "get_github_token"
    /\ LET t == arg_env_token(argv, GITHUB_TOKEN) IN
         IF t # None
         THEN /\ token' = t
              /\ pc' = "check_and_create_label"
              /\ out' = out \o <<"banner">>
         ELSE /\ token' = token
              /\ pc' = "input"
              /\ out' = out \o <<"banner", "token_required">>
    /\ UNCHANGED <<inputs, stdin, net, counters, crash, exit_status, repo, runs>>

\* input() returns a line or raises EOFError; an empty stripped line is a
\* usage error, sys.exit(1)
prompt ==
    /\ pc = "input"
    /\ \E r \in PromptInputs :
         /\ stdin' = Some(r)
         /\ IF r.eof
            THEN /\ crash' = "EOFError"
                 /\ exit_status' = Some(1)
                 /\ pc' = "exited"
                 /\ UNCHANGED <<token, out>>
            ELSE IF strip(r.line) = <<>>
            THEN /\ out' = out \o <<"no_token">>
                 /\ exit_status' = Some(1)
                 /\ pc' = "exited"
                 /\ UNCHANGED <<token, crash>>
            ELSE /\ token' = Some(strip(r.line))
                 /\ pc' = "check_and_create_label"
                 /\ UNCHANGED <<out, crash, exit_status>>
    /\ UNCHANGED <<inputs, net, counters, repo, runs>>

\* the line check_and_create_label prints for the answer to its GET
label_get_line(o) == IF is_success(o) THEN "label_exists" ELSE "warn_check"

\* the line check_and_create_label prints for the answer to its POST
label_post_line(o) == IF is_success(o) THEN "label_created" ELSE "warn_create"

\* sys.exit at the end of main
exit_code(failed) == IF failed > 0 THEN 1 ELSE 0

\* an exception leaves main: traceback, exit status 1
uncaught(site) ==
    /\ crash' = site
    /\ exit_status' = Some(1)
    /\ pc' = "exited"

\* check_and_create_label sends its GET and blocks in urlopen
send_label_get ==
    /\ pc = "check_and_create_label"
    /\ requests' = Append(requests, LabelGet)
    /\ inflight' = inflight + 1
    /\ pc' = "label_get"
    /\ out' = out \o <<"checking">>
    /\ UNCHANGED <<inputs, stdin, token, label_get_resp, label_post_resp,
                   issue_resp, counters, crash, exit_status, repo, runs>>

\* urlopen answers the GET: label exists, HTTPError 404, another HTTPError,
\* or a URLError that no handler of the function catches
label_get_answered(o) ==
    /\ pc = "label_get"
    /\ label_get_resp' = Some(o)
    /\ inflight' = inflight - 1
    /\ LET nxt == after_label_get(o) IN
         IF nxt = "raise"
         THEN /\ uncaught("label_get")
              /\ out' = out
         ELSE IF nxt = "create_label"
         THEN /\ pc' = "create_label"
              /\ UNCHANGED <<out, crash, exit_status>>
         ELSE /\ pc' = "loop"
              /\ out' = out \o <<label_get_line(o)>>
              /\ UNCHANGED <<crash, exit_status>>
    /\ UNCHANGED <<inputs, stdin, token, requests, label_post_resp,
                   issue_resp, counters, repo, runs>>

\* the GET answered by a server that may answer anything
recv_label_get ==
    /\ pc = "label_get"
    /\ \E o \in LabelOutcomes : label_get_answered(o)

\* the GET answered by a repository that tells the truth about its label:
\* 200 if it has the label, 404 if not
recv_label_get_truthful ==
    /\ pc = "label_get"
    /\ label_get_answered(IF label_exists THEN Http(200, "ok") ELSE Http(404, "ok"))

\* a variant of the POST that does not wait for the answer
send_create_label_no_wait ==
    /\ pc = "create_label"
    /\ requests' = Append(requests, LabelPost)
    /\ inflight' = inflight + 1
    /\ pc' = "loop"
    /\ UNCHANGED <<inputs, stdin, token, label_get_resp, label_post_resp,
                   issue_resp, counters, out, crash, exit_status, repo, runs>>

\* after a 404 the function sends the create-label POST and blocks
send_create_label ==
    /\ pc = "create_label"
    /\ requests' = Append(requests, LabelPost)
    /\ inflight' = inflight + 1
    /\ pc' = "label_post"
    /\ UNCHANGED <<inputs, stdin, token, label_get_resp, label_post_resp,
                   issue_resp, counters, out, crash, exit_status, repo, runs>>

\* urlopen answers the POST: created, HTTPError (warning), or an uncaught
\* URLError
recv_create_label ==
    /\ pc = "label_post"
    /\ \E o \in LabelOutcomes :
         /\ label_post_resp' = Some(o)
         /\ inflight' = inflight - 1
         /\ IF after_label_post(o) = "raise"
            THEN /\ uncaught("label_post")
                 /\ out' = out
            ELSE /\ pc' = "loop"
                 /\ out' = out \o <<label_post_line(o)>>
                 /\ UNCHANGED <<crash, exit_status>>
         /\ label_exists' = (label_exists \/ is_success(o))
         /\ label_created' = label_created + (IF is_success(o) THEN 1 ELSE 0)
    /\ UNCHANGED <<inputs, stdin, token, requests, label_get_resp,
                   issue_resp, counters, issues_created, runs>>

\* the loop of main takes the next entry of ISSUES; create_issue sends its
\* POST and blocks
send_create_issue ==
    /\ pc = "loop"
    /\ i < NumIssues
    /\ requests' = Append(requests, IssuePost(i + 1))
    /\ inflight' = inflight + 1
    /\ pc' = "create_issue"
    /\ out' = out \o <<"progress">>
    /\ UNCHANGED <<inputs, stdin, token, label_get_resp, label_post_resp,
                   issue_resp, counters, crash, exit_status, repo, runs>>

\* urlopen answers; create_issue returns True or False and the loop counts
\* it, or an exception raised inside the HTTPError handler leaves main
recv_create_issue ==
    /\ pc = "create_issue"
    /\ \E o \in IssueOutcomes :
         /\ issue_resp' = Append(issue_resp, o)
         /\ inflight' = inflight - 1
         /\ LET r == create_issue(o) IN
              IF r = "raise"
              THEN /\ uncaught("create_issue")
                   /\ UNCHANGED <<counters, out>>
              ELSE /\ i' = i + 1
                   /\ success_count' = IF r = "True" THEN success_count + 1
                                       ELSE success_count
                   /\ failed_count' = IF r = "True" THEN failed_count
                                      ELSE failed_count + 1
                   /\ out' = out \o <<IF r = "True" THEN "created" ELSE "failed">>
                   /\ pc' = "loop"
                   /\ UNCHANGED <<crash, exit_status>>
         /\ issues_created' = issues_created + (IF is_success(o) THEN 1 ELSE 0)
    /\ UNCHANGED <<inputs, stdin, token, requests, label_get_resp,
                   label_post_resp, label_exists, label_created, runs>>

\* the list is done: summary and exit status
summary ==
    /\ pc = "loop"
    /\ i = NumIssues
    /\ out' = out \o <<"summary">>
    /\ exit_status' = Some(exit_code(failed_count))
    /\ pc' = "exited"
    /\ UNCHANGED <<inputs, stdin, token, net, counters, crash, repo, runs>>

Next ==
    \/ get_github_token
    \/ prompt
    \/ send_label_get
    \/ recv_label_get
    \/ send_create_label
    \/ recv_create_label
    \/ send_create_issue
    \/ recv_create_issue
    \/ summary

Spec == Init /\ [][Next]_vars

(***************************************************************************)
(* Successive runs against one repository                                  *)
(***************************************************************************)
\* the ways the script is started in the successive runs
RunArgs == {<<>>, <<<<"x">>>>}
RunEnv == {None, Some(<<"x">>)}

\* a process at the start of main
process_start ==
    /\ stdin = None
    /\ token = None
    /\ pc = "get_github_token"
    /\ requests = <<>>
    /\ inflight = 0
    /\ label_get_resp = None
    /\ label_post_resp = None
    /\ issue_resp = <<>>
    /\ i = 0
    /\ success_count = 0
    /\ failed_count = 0
    /\ out = <<>>
    /\ crash = "none"
    /\ exit_status = None

InitRuns ==
    /\ argv \in RunArgs
    /\ GITHUB_TOKEN \in RunEnv
    /\ label_exists \in BOOLEAN
    /\ fresh_repo
    /\ process_start

\* the script has exited and is started again: a new process, the same
\* repository
next_run ==
    /\ pc = "exited"
    /\ run < MaxRuns
    /\ run' = run + 1
    /\ clean_runs' = clean_runs + (IF exit_status = Some(0) THEN 1 ELSE 0)
    /\ argv' \in RunArgs
    /\ GITHUB_TOKEN' \in RunEnv
    /\ stdin' = None
    /\ token' = None
    /\ pc' = "get_github_token"
    /\ requests' = <<>>
    /\ inflight' = 0
    /\ label_get_resp' = None
    /\ label_post_resp' = None
    /\ issue_resp' = <<>>
    /\ i' = 0
    /\ success_count' = 0
    /\ failed_count' = 0
    /\ out' = <<>>
    /\ crash' = "none"
    /\ exit_status' = None
    /\ UNCHANGED repo

NextRuns ==
    \/ get_github_token
    \/ prompt
    \/ send_label_get
    \/ recv_label_get_truthful
    \/ send_create_label
    \/ recv_create_label
    \/ send_create_issue
    \/ recv_create_issue
    \/ summary
    \/ next_run

SpecRuns == InitRuns /\ [][NextRuns]_vars

\* a run in which every blocking call (input, urlopen) eventually returns
LiveSpec == Init /\ [][Next]_vars /\ WF_vars(Next)

(***************************************************************************)
(* Vocabulary of the properties                                            *)
(***************************************************************************)
Sent(kind) == {k \in 1..Len(requests) : requests[k].kind = kind}
IssueDrafts == {requests[k].draft : k \in Sent("issue")}
Answered == Len(label_get_resp) + Len(label_post_resp) + Len(issue_resp)
Blank(line) == \A k \in 1..Len(line) : line[k] = " "
EnvGiven == GITHUB_TOKEN # None /\ GITHUB_TOKEN[1] # <<>>
PromptLine == stdin # None /\ ~stdin[1].eof
Resolved == pc \notin {"get_github_token", "input"}
SuccessAnswers == {k \in 1..Len(issue_resp) :
                     issue_resp[k].kind = "http" /\ issue_resp[k].status \in 200..299}

\* C1: once get_github_token is over, either it returned a non-empty token
\* or the process has exited with a non-zero status; an empty token is never
\* returned.
C1_NonEmptyTokenOrExit ==
    Resolved =>
        \/ token # None /\ token[1] # <<>>
        \/ token = None /\ exit_status # None /\ exit_status[1] # 0

\* C2 as stated: the returned token is the argument if one is given, else the
\* environment value if set and non-empty, else the prompt response itself;
\* the prompt is read only when argument and environment gave nothing.
C2_PromptResponseReturned ==
    /\ token # None =>
         token = IF Len(argv) > 0 THEN Some(argv[1])
                 ELSE IF EnvGiven THEN GITHUB_TOKEN
                 ELSE Some(stdin[1].line)
    /\ stdin # None => Len(argv) = 0 /\ ~EnvGiven

\* C2 amended: the returned token is the argument if one is given, else the
\* environment value if set and non-empty, else the prompt response with its
\* leading and trailing whitespace removed; the prompt is read only when
\* argument and environment gave nothing.
C2_PriorityOrder ==
    /\ token # None =>
         token = IF Len(argv) > 0 THEN Some(argv[1])
                 ELSE IF EnvGiven THEN GITHUB_TOKEN
                 ELSE Some(strip(stdin[1].line))
    /\ token # None /\ Len(argv) = 0 /\ ~EnvGiven =>
         /\ PromptLine
         /\ token[1] # <<>>
         /\ ~isspace(token[1][1])
         /\ ~isspace(token[1][Len(token[1])])
    /\ stdin # None => Len(argv) = 0 /\ ~EnvGiven

\* a token that came from a prompt line with surrounding whitespace
C2_Witness ==
    /\ Len(argv) = 0
    /\ ~EnvGiven
    /\ PromptLine
    /\ token # None
    /\ token[1] # stdin[1].line
    /\ pc = "check_and_create_label"

\* C3: with no argument, no environment token and an empty or whitespace-only
\* prompt line, the process has exited with status 1 and has sent no network
\* request (the exited process takes no further step).
C3_EmptyPromptExits ==
    (Len(argv) = 0 /\ ~EnvGiven /\ PromptLine /\ Blank(stdin[1].line)) =>
        /\ pc = "exited"
        /\ exit_status = Some(1)
        /\ requests = <<>>
        /\ inflight = 0
        /\ token = None

\* a whitespace-only prompt line ended the run
C3_Witness ==
    /\ PromptLine
    /\ stdin[1].line = <<" ">>
    /\ pc = "exited"
    /\ exit_status = Some(1)

\* C4: the label ensurer sends exactly one GET; after a 404 exactly one
\* create-label POST, after a 200 none; in both cases the run goes on to
\* issue creation.
C4_LabelEnsurer ==
    /\ Cardinality(Sent("label_get")) <= 1
    /\ label_get_resp # None => Cardinality(Sent("label_get")) = 1
    /\ (label_get_resp # None /\ label_get_resp[1].kind = "http") =>
         /\ label_get_resp[1].status = 200 =>
              Cardinality(Sent("label_post")) = 0
         /\ (label_get_resp[1].status = 404 /\ pc # "create_label") =>
              Cardinality(Sent("label_post")) = 1
         /\ (label_get_resp[1].status \in {200, 404} /\ pc = "exited") =>
              Sent("issue") # {}

\* C5: a failure status of the label check other than 404, or a failure of
\* the create-label request, is only a warning: no create-label request
\* follows a non-404 check failure, the run is not halted and a create-issue
\* request is sent for every draft.
C5_LabelFailureIsWarning ==
    /\ (/\ label_get_resp # None
        /\ label_get_resp[1].kind = "http"
        /\ label_get_resp[1].status \notin {200, 404}) =>
         /\ Sent("label_post") = {}
         /\ "warn_check" \in {out[k] : k \in 1..Len(out)}
         /\ pc = "exited" => IssueDrafts = 1..NumIssues
    /\ (/\ label_post_resp # None
        /\ ~(label_post_resp[1].kind = "http" /\ label_post_resp[1].status \in 200..299)) =>
         /\ "warn_create" \in {out[k] : k \in 1..Len(out)}
         /\ pc = "exited" => IssueDrafts = 1..NumIssues

\* C6: no failure of a network request leaves main as an uncaught exception;
\* a run with a token ends with the summary and the exit status computed
\* from failed_count.
C6_NoNetworkCrash ==
    /\ crash \notin {"label_get", "label_post", "create_issue"}
    /\ (pc = "exited" /\ token # None) =>
         /\ out[Len(out)] = "summary"
         /\ exit_status = Some(IF failed_count > 0 THEN 1 ELSE 0)

\* C7: the create-issue requests are sent for drafts 1, 2, ... in list order,
\* one per draft, and a run that reached the publisher ends only after the
\* request for the last draft, whatever the earlier outcomes.
C7_OneRequestPerDraftInOrder ==
    /\ \A k \in 1..Len(requests) :
         requests[k].kind = "issue" =>
           requests[k].draft = Cardinality({j \in 1..k : requests[j].kind = "issue"})
    /\ (pc = "exited" /\ Sent("issue") # {}) =>
         /\ Cardinality(Sent("issue")) = NumIssues
         /\ Len(issue_resp) = NumIssues

\* C8: whenever the loop is between two drafts, and at the normal end of the
\* run, success_count is the number of drafts the server answered with a
\* success status and failed_count the number of the other answered drafts.
C8_CountsMatchAnswers ==
    (pc = "loop" \/ (pc = "exited" /\ crash = "none" /\ token # None)) =>
        /\ success_count = Cardinality(SuccessAnswers)
        /\ failed_count = Len(issue_resp) - Cardinality(SuccessAnswers)

\* C9: the exit status is 1 when no token was supplied; a run that resolved a
\* token exits with 1 exactly when failed_count is nonzero after the whole
\* list was processed, and with 0 otherwise.
C9_ExitStatus ==
    pc = "exited" =>
        exit_status = Some(IF token = None THEN 1
                           ELSE IF i = NumIssues /\ failed_count > 0 THEN 1
                           ELSE 0)

\* C10: at most one request is in flight; no request is sent before the token
\* is resolved; every label request precedes every create-issue request, and
\* the label requests have been answered before the first create-issue
\* request is sent.
C10_SequentialPhases ==
    /\ inflight \in {0, 1}
    /\ inflight = Len(requests) - Answered
    /\ requests # <<>> => token # None
    /\ \A j, k \in 1..Len(requests) :
         (j < k /\ requests[j].kind = "issue") => requests[k].kind = "issue"
    /\ Sent("issue") # {} =>
         /\ label_get_resp # None
         /\ Len(label_post_resp) = Cardinality(Sent("label_post"))

\* a create-issue request in flight after an answered create-label request
C10_Witness ==
    /\ inflight = 1
    /\ pc = "create_issue"
    /\ label_post_resp # None
    /\ Len(issue_resp) = 1

\* C11: every create-issue request carries the label "feature" in its labels
\* field, whatever the label ensurer found: also after a label check that
\* failed with a non-404 status and after a failed create-label request.
C11_IssuesAlwaysLabelled ==
    \A k \in 1..Len(requests) :
        requests[k].kind = "issue" => requests[k].labels = {"feature"}

\* a create-issue request sent although the create-label request had failed
C11_Witness ==
    /\ Sent("issue") # {}
    /\ label_get_resp # None
    /\ label_get_resp[1].status = 404
    /\ label_post_resp # None
    /\ label_post_resp[1].status = 422
    /\ requests[Len(requests)].labels = {"feature"}

\* C12: success_count + failed_count is the number of drafts whose
\* create-issue request has been answered; no step decreases a counter; the
\* step that answers a draft's request adds exactly one to exactly one of
\* them; and when the loop is over the sum is the length of the list.
C12_LoopInvariant ==
    /\ [](/\ success_count + failed_count = Len(issue_resp)
          /\ (pc = "exited" /\ Sent("issue") # {}) =>
               success_count + failed_count = NumIssues)
    /\ [][/\ success_count' >= success_count
          /\ failed_count' >= failed_count
          /\ Len(issue_resp') = Len(issue_resp) + 1 =>
               (success_count' + failed_count') = (success_count + failed_count) + 1
          /\ Len(issue_resp') = Len(issue_resp) =>
               (success_count' = success_count /\ failed_count' = failed_count)]_vars

\* C13: over successive runs against a repository that keeps its label and
\* answers the label check truthfully, the label is created at most once and
\* no create-label request is sent once the label exists; every run that
\* reaches its end has sent a create-issue request for every draft again, so
\* after R runs that all ended with full success the repository has created
\* R * NumIssues issues.
C13_LabelOnceIssuesEveryRun ==
    /\ [](/\ label_created <= 1
          /\ label_created = 1 => label_exists
          /\ (pc = "exited" /\ crash = "none" /\ token # None) =>
               IssueDrafts = 1..NumIssues
          /\ (pc = "exited" /\ exit_status = Some(0) /\ clean_runs = run - 1) =>
               issues_created = run * NumIssues)
    /\ [][(label_exists /\ Len(requests') = Len(requests) + 1) =>
            requests'[Len(requests')].kind # "label_post"]_vars

\* the second of two fully successful runs has ended; the first created the
\* label, the second found it
C13_Witness ==
    /\ run = 2
    /\ pc = "exited"
    /\ exit_status = Some(0)
    /\ clean_runs = 1
    /\ label_created = 1
    /\ Sent("label_post") = {}
    /\ issues_created = 2 * NumIssues

\* C14: when every blocking call eventually returns, every run eventually
\* ends, and a run that resolved a token ends after at most 2 label requests
\* and exactly NumIssues create-issue requests.
C14_TerminatesAfterAllRequests ==
    /\ <>(pc = "exited")
    /\ []((pc = "exited" /\ token # None) =>
            /\ Cardinality(Sent("label_get")) + Cardinality(Sent("label_post")) <= 2
            /\ Cardinality(Sent("issue")) = NumIssues)
====
